---- MODULE Spec2Model ----
(***************************************************************************)
(* The Amino Gym service worker (src/unnamed/part_000, lines 1-306) and    *)
(* the page code that registers it (src/src/main.tsx,                      *)
(* src/src/utils/performance.ts), as a state machine over Cache Storage.   *)
(*                                                                         *)
(* Every await of the source is a suspension point: the code between two   *)
(* awaits is one action.  A promise that the source does not await         *)
(* (cache.put in the strategies, the background refetch) is a pending      *)
(* operation that completes in a later action of its own.                  *)
(***************************************************************************)
EXTENDS Integers, Sequences, FiniteSets, TLC

(***************************************************************************)
(* Bounds of the model.                                                    *)
(***************************************************************************)
\* Spec: fetch events delivered to the worker (one slot per event), page loads
\* (each runs registerServiceWorker, then clearOldCaches) and installs of the
\* worker script (first install, re-install after a failure, update)
MaxFetch == 2
MaxLoads == 1
MaxInstalls == 1
\* SpecLife: the same machine, with more of the lifecycle and fewer fetch events
LifeFetch == 1
LifeLoads == 2
LifeInstalls == 2
\* SpecEvents: push, notificationclick, message, sync and periodicsync events
\* delivered to the active worker, and the window clients of the origin
MaxEvents == 2
MaxClients == 2

(***************************************************************************)
(* Strings.  The code inspects strings (includes, startsWith, a regular    *)
(* expression), so every string the code inspects has its characters here. *)
(***************************************************************************)
CACHE_NAME == "amino-gym-v2"
STATIC_CACHE == "amino-gym-static-v2"
DYNAMIC_CACHE == "amino-gym-dynamic-v2"
IMAGE_CACHE == "amino-gym-images-v2"
\* namespaces left in storage by earlier deployments
OLD_CACHE == "amino-gym-v1"
PAGES_CACHE == "pages-cache"

CurrentCaches == {CACHE_NAME, STATIC_CACHE, DYNAMIC_CACHE, IMAGE_CACHE}
AllCaches == CurrentCaches \cup {OLD_CACHE, PAGES_CACHE}

CRITICAL_RESOURCES ==
  {"/", "/home", "/login", "/yacin-gym-logo.png", "/success-sound.mp3"}
STATIC_ASSETS == {"/manifest.json"}

Chars(str) ==
  CASE str = "amino-gym-v2" -> <<"a","m","i","n","o","-","g","y","m","-","v","2">>
    [] str = "amino-gym-static-v2" ->
         <<"a","m","i","n","o","-","g","y","m","-","s","t","a","t","i","c","-","v","2">>
    [] str = "amino-gym-dynamic-v2" ->
         <<"a","m","i","n","o","-","g","y","m","-","d","y","n","a","m","i","c","-","v","2">>
    [] str = "amino-gym-images-v2" ->
         <<"a","m","i","n","o","-","g","y","m","-","i","m","a","g","e","s","-","v","2">>
    [] str = "amino-gym-v1" -> <<"a","m","i","n","o","-","g","y","m","-","v","1">>
    [] str = "pages-cache" -> <<"p","a","g","e","s","-","c","a","c","h","e">>
    [] str = "v1" -> <<"v","1">>
    [] str = "/api/" -> <<"/","a","p","i","/">>
    [] str = "/api/x.js" -> <<"/","a","p","i","/","x",".","j","s">>
    [] str = "/api/pic" -> <<"/","a","p","i","/","p","i","c">>
    [] str = "/api/save" -> <<"/","a","p","i","/","s","a","v","e">>
    [] str = "/yacin-gym-logo.png" ->
         <<"/","y","a","c","i","n","-","g","y","m","-","l","o","g","o",".","p","n","g">>
    [] str = "/app.js" -> <<"/","a","p","p",".","j","s">>
    [] str = "/font.woff2" -> <<"/","f","o","n","t",".","w","o","f","f","2">>
    [] str = "/about" -> <<"/","a","b","o","u","t">>
    [] str = "/" -> <<"/">>
    [] str = "js" -> <<"j","s">>
    [] str = "css" -> <<"c","s","s">>
    [] str = "woff" -> <<"w","o","f","f">>
    [] str = "woff2" -> <<"w","o","f","f","2">>
    [] str = "/manifest.json" ->
         <<"/","m","a","n","i","f","e","s","t",".","j","s","o","n">>
    [] str = "https://amino.gym" ->
         <<"h","t","t","p","s",":","/","/","a","m","i","n","o",".","g","y","m">>
    [] str = "https://amino.gym/" ->
         <<"h","t","t","p","s",":","/","/","a","m","i","n","o",".","g","y","m","/">>
    [] str = "https://amino.gym/home" ->
         <<"h","t","t","p","s",":","/","/","a","m","i","n","o",".","g","y","m","/","h","o","m","e">>

\* String.prototype.includes
Includes(str, sub) ==
  LET s == Chars(str)
      t == Chars(sub)
  IN \E i \in 0..(Len(s) - Len(t)) : SubSeq(s, i + 1, i + Len(t)) = t

\* String.prototype.startsWith
StartsWith(str, prefix) ==
  LET s == Chars(str)
      t == Chars(prefix)
  IN Len(s) >= Len(t) /\ SubSeq(s, 1, Len(t)) = t

\* str ends with "." followed by ext
EndsWithDot(str, ext) ==
  LET s == Chars(str)
      t == <<".">> \o Chars(ext)
  IN Len(s) >= Len(t) /\ SubSeq(s, Len(s) - Len(t) + 1, Len(s)) = t

\* url.pathname.match(/\.(js|css|woff2?)$/)
MatchesStaticSuffix(path) ==
  \E ext \in {"js", "css", "woff", "woff2"} : EndsWithDot(path, ext)

(***************************************************************************)
(* Time.  The clock takes the instants of Times in order; a response's     *)
(* Date header is the instant at which the network produced it.            *)
(***************************************************************************)
oneHour == 60 * 60 * 1000
Times == <<2 * oneHour, 3 * oneHour, 3 * oneHour + 1>>

(***************************************************************************)
(* Responses.                                                              *)
(***************************************************************************)
\* kind and id say which network call produced the response, at the instant
\* it was produced; hasDate and date are its Date header
NoResp ==
  [kind |-> "none", id |-> 0, ok |-> FALSE, hasDate |-> FALSE, date |-> 0, at |-> 0]
NetResp(kind, id, ok, hasDate, t) ==
  [kind |-> kind, id |-> id, ok |-> ok, hasDate |-> hasDate,
   date |-> IF hasDate THEN t ELSE 0, at |-> t]
\* new Response("Offline", { status: 503 })
OfflineResp ==
  [kind |-> "offline", id |-> 0, ok |-> FALSE, hasDate |-> FALSE, date |-> 0, at |-> 0]

Keys == CRITICAL_RESOURCES \cup STATIC_ASSETS
          \cup {"/api/x.js", "/api/pic", "/app.js", "/about"}

EmptyCache == [k \in Keys |-> NoResp]

VARIABLES
  now,          \* index into Times: the current instant
  cacheNames,   \* CacheStorage: the existing namespaces, in creation order
  ent,          \* namespace -> key -> stored response (NoResp: no entry)
  swState,      \* the newest worker's lifecycle state
  installs,     \* installs started so far
  addAll,       \* install: the state of each namespace's open().then(addAll)
  skipWaiting,  \* self.skipWaiting() has been called by the newest worker
  act,          \* activate: keys() / pending deletes / clients.claim()
  activeVer,    \* some version of the worker has finished activating
  controlled,   \* the page is controlled by the registration's active worker
  pagePc,       \* the page's load listener
  pageDel,      \* clearOldCaches: the deletes still pending, in order
  loads,        \* page loads so far
  fetches,      \* fetch events so far
  budget,       \* the run's bounds on fetches, loads and installs
  ev,           \* fetch events: slot -> handler state
  windows,      \* window clients of the origin: client -> closed / open
  events,       \* push, click, message and sync events delivered so far
  pushLog,      \* push events: what each handler run did
  clickLog,     \* notificationclick events: what each handler run did
  msgLog,       \* message events: what each handler run did
  syncLog       \* sync and periodicsync events: what each handler run did

ClientIds == 1..MaxClients

storeVars == <<cacheNames, ent>>
instVars == <<swState, installs, addAll, skipWaiting>>
actVars == <<act, activeVer, controlled>>
pageVars == <<pagePc, pageDel, loads>>
fetchVars == <<fetches, ev>>
eventVars == <<windows, events, pushLog, clickLog, msgLog, syncLog>>
vars == <<now, cacheNames, ent, swState, installs, addAll, skipWaiting, act,
          activeVer, controlled, pagePc, pageDel, loads, fetches, budget, ev,
          windows, events, pushLog, clickLog, msgLog, syncLog>>

(***************************************************************************)
(* Cache Storage.                                                          *)
(***************************************************************************)
Range(seq) == {seq[i] : i \in 1..Len(seq)}
Exists(n) == n \in Range(cacheNames)

\* caches.open(name): the namespace is created if absent
OpenNames(n) == IF Exists(n) THEN cacheNames ELSE Append(cacheNames, n)

\* caches.delete(name)
DeleteNames(n) == SelectSeq(cacheNames, LAMBDA m : m # n)
DeleteEnt(n) == [ent EXCEPT ![n] = EmptyCache]

\* A Cache handle writes to the namespace in storage only as long as the
\* namespace it was opened on has not been deleted: caches.delete(n) orphans
\* every handle on n (field live), also when n is created again afterwards.
Orphan(h) == [h EXCEPT !.live = FALSE]
DeleteAddAll(n) ==
  [m \in DOMAIN addAll |-> IF m = n THEN Orphan(addAll[m]) ELSE addAll[m]]
DeleteEv(n) ==
  [s \in DOMAIN ev |->
     IF ev[s].ns = n
       THEN [ev[s] EXCEPT !.put = Orphan(@), !.bg = Orphan(@)]
       ELSE ev[s]]

\* caches.match(key): the first namespace, in creation order, holding the key
MatchIn(names, key) ==
  LET hits == SelectSeq(names, LAMBDA m : ent[m][key] # NoResp)
  IN IF hits = <<>> THEN NoResp ELSE ent[hits[1]][key]
CachesMatch(key) == MatchIn(cacheNames, key)

Stored(n, key) == IF Exists(n) THEN ent[n][key] ELSE NoResp
KeysOf(n) == {k \in Keys : Stored(n, k) # NoResp}

\* caches.delete(n)
DeleteCache(n) ==
  /\ cacheNames' = DeleteNames(n)
  /\ ent' = DeleteEnt(n)
  /\ addAll' = DeleteAddAll(n)
  /\ ev' = DeleteEv(n)

(***************************************************************************)
(* Install (part_000 lines 20-40).                                         *)
(***************************************************************************)
InstallCaches == {CACHE_NAME, STATIC_CACHE}
Manifest(n) == IF n = CACHE_NAME THEN CRITICAL_RESOURCES ELSE STATIC_ASSETS

NoHandle == [st |-> "none", live |-> FALSE]
NoAct == [keys |-> "none", del |-> {}, claim |-> "none"]

\* navigator.serviceWorker.register("/sw.js") starts an install when there is no
\* live worker (first load, or the last install failed) or the script is found
\* updated; the install handler runs up to its two caches.open calls, and the
\* page goes on to clearOldCaches, which calls caches.keys().
InstallStart ==
  /\ pagePc = "registering"
  /\ swState \in {"parsed", "redundant", "activated"}
  /\ installs < budget.installs
  /\ swState' = "installing"
  /\ installs' = installs + 1
  /\ addAll' = [n \in InstallCaches |-> [st |-> "opening", live |-> FALSE]]
  /\ skipWaiting' = FALSE
  /\ act' = NoAct
  /\ pagePc' = "keys"
  /\ UNCHANGED <<now, budget, eventVars, storeVars, activeVer, controlled, pageDel, loads,
                 fetchVars>>

\* caches.open(n) resolves; cache.addAll(manifest) starts
InstallOpen(n) ==
  /\ addAll[n].st = "opening"
  /\ cacheNames' = OpenNames(n)
  /\ addAll' = [addAll EXCEPT ![n] = [st |-> "adding", live |-> TRUE]]
  /\ UNCHANGED <<now, budget, eventVars, ent, swState, installs, skipWaiting, actVars,
                 pageVars, fetchVars>>

\* addAll as a replacement of the namespace's content
MutAddAllEntries(n) ==
  [k \in Keys |-> IF k \in Manifest(n)
                    THEN NetResp("addAll", installs, TRUE, TRUE, Times[now])
                    ELSE NoResp]

\* the entries cache.addAll writes: every resource of the manifest, in one batch
AddAllEntries(n) ==
  [k \in Keys |-> IF k \in Manifest(n)
                    THEN NetResp("addAll", installs, TRUE, TRUE, Times[now])
                    ELSE ent[n][k]]

\* every resource of the manifest was fetched with an ok response
AddAllOk(n) ==
  /\ addAll[n].st = "adding"
  /\ ent' = IF addAll[n].live THEN [ent EXCEPT ![n] = AddAllEntries(n)] ELSE ent
  /\ addAll' = [addAll EXCEPT ![n] = [st |-> "done", live |-> FALSE]]
  /\ UNCHANGED <<now, budget, eventVars, cacheNames, swState, installs, skipWaiting, actVars,
                 pageVars, fetchVars>>

\* one cache.add per resource: those before the failing one are written
MutAddAllFail(n) ==
  /\ addAll[n].st = "adding"
  /\ ent' = IF addAll[n].live
              THEN [ent EXCEPT ![n][CHOOSE k \in Manifest(n) : TRUE] =
                      NetResp("addAll", installs, TRUE, TRUE, Times[now])]
              ELSE ent
  /\ addAll' = [addAll EXCEPT ![n] = [st |-> "failed", live |-> FALSE]]
  /\ UNCHANGED <<now, budget, eventVars, cacheNames, swState, installs, skipWaiting, actVars,
                 pageVars, fetchVars>>

\* a resource of the manifest could not be fetched, or its response was not ok:
\* addAll rejects and writes nothing
AddAllFail(n) ==
  /\ addAll[n].st = "adding"
  /\ addAll' = [addAll EXCEPT ![n] = [st |-> "failed", live |-> FALSE]]
  /\ UNCHANGED <<now, budget, eventVars, storeVars, swState, installs, skipWaiting, actVars,
                 pageVars, fetchVars>>

\* Promise.all resolves when both addAll have
InstallSettled == \A n \in InstallCaches : addAll[n].st = "done"

\* Promise.all(...).then(() => self.skipWaiting())
InstallDone ==
  /\ swState = "installing"
  /\ InstallSettled
  /\ skipWaiting' = TRUE
  /\ swState' = "installed"
  /\ UNCHANGED <<now, budget, eventVars, storeVars, installs, addAll, actVars, pageVars,
                 fetchVars>>

\* Promise.all rejects as soon as one addAll has; the other goes on
InstallFail ==
  /\ swState = "installing"
  /\ \E n \in InstallCaches : addAll[n].st = "failed"
  /\ swState' = "redundant"
  /\ UNCHANGED <<now, budget, eventVars, storeVars, installs, addAll, skipWaiting, actVars,
                 pageVars, fetchVars>>

(***************************************************************************)
(* Activate (part_000 lines 43-69).                                        *)
(***************************************************************************)
AllowList == {CACHE_NAME, STATIC_CACHE, DYNAMIC_CACHE, IMAGE_CACHE}

\* the handler calls caches.keys() and self.clients.claim()
ActivateStart ==
  /\ swState = "installed"
  /\ skipWaiting \/ ~activeVer
  /\ swState' = "activating"
  /\ act' = [keys |-> "pending", del |-> {}, claim |-> "pending"]
  /\ UNCHANGED <<now, budget, eventVars, storeVars, installs, addAll, skipWaiting, activeVer,
                 controlled, pageVars, fetchVars>>

\* an allow-list test by version tag instead of by name
MutActivateDoomed(names) == {n \in names : Includes(n, "v1")}

\* the namespaces the activate handler deletes, given those caches.keys() lists
ActivateDoomed(names) == {n \in names : n \notin AllowList}

\* caches.keys() resolves; caches.delete is called for each name to drop
ActivateKeys ==
  /\ act.keys = "pending"
  /\ act' = [act EXCEPT !.keys = "done", !.del = ActivateDoomed(Range(cacheNames))]
  /\ UNCHANGED <<now, budget, eventVars, storeVars, instVars, activeVer, controlled, pageVars,
                 fetchVars>>

ActivateDelete(n) ==
  /\ n \in act.del
  /\ DeleteCache(n)
  /\ act' = [act EXCEPT !.del = @ \ {n}]
  /\ UNCHANGED <<now, budget, eventVars, swState, installs, skipWaiting, activeVer,
                 controlled, pageVars, fetches>>

\* self.clients.claim() resolves
ClaimDone ==
  /\ act.claim = "pending"
  /\ act' = [act EXCEPT !.claim = "done"]
  /\ controlled' = TRUE
  /\ UNCHANGED <<now, budget, eventVars, storeVars, instVars, activeVer, pageVars, fetchVars>>

ActivateSettled == act.keys = "done" /\ act.del = {} /\ act.claim = "done"

ActivateDone ==
  /\ swState = "activating"
  /\ ActivateSettled
  /\ swState' = "activated"
  /\ activeVer' = TRUE
  /\ UNCHANGED <<now, budget, eventVars, storeVars, installs, addAll, skipWaiting, act,
                 controlled, pageVars, fetchVars>>

(***************************************************************************)
(* The page (main.tsx lines 14-18, performance.ts lines 115-134).          *)
(***************************************************************************)
\* the load listener calls registerServiceWorker()
PageLoad ==
  /\ pagePc = "idle"
  /\ loads < budget.loads
  /\ pagePc' = "registering"
  /\ loads' = loads + 1
  /\ controlled' = activeVer
  /\ UNCHANGED <<now, budget, eventVars, storeVars, instVars, act, activeVer, pageDel,
                 fetchVars>>

\* register() settles without an install (the registration is up to date, or
\* register() failed and registerServiceWorker caught it); clearOldCaches calls
\* caches.keys()
PageRegistered ==
  /\ pagePc = "registering"
  /\ pagePc' = "keys"
  /\ UNCHANGED <<now, budget, eventVars, storeVars, instVars, actVars, pageDel, loads,
                 fetchVars>>

\* cacheNames.filter((name) => !name.includes("v1"))
oldCaches(names) == SelectSeq(names, LAMBDA n : ~Includes(n, "v1"))

\* caches.keys() resolves; caches.delete is called for each of oldCaches, in the
\* order of the array, and storage serves one client's requests in order
PageKeys ==
  /\ pagePc = "keys"
  /\ pageDel' = oldCaches(cacheNames)
  /\ pagePc' = "deleting"
  /\ UNCHANGED <<now, budget, eventVars, storeVars, instVars, actVars, loads, fetchVars>>

PageDelete(n) ==
  /\ pagePc = "deleting"
  /\ pageDel # <<>>
  /\ n = Head(pageDel)
  /\ DeleteCache(n)
  /\ pageDel' = Tail(pageDel)
  /\ UNCHANGED <<now, budget, eventVars, swState, installs, skipWaiting, actVars, pagePc,
                 loads, fetches>>

\* Promise.all of the deletes resolves
PageCleared ==
  /\ pagePc = "deleting"
  /\ pageDel = <<>>
  /\ pagePc' = "idle"
  /\ UNCHANGED <<now, budget, eventVars, storeVars, instVars, actVars, pageDel, loads,
                 fetchVars>>

Tick ==
  /\ now < Len(Times)
  /\ now' = now + 1
  /\ UNCHANGED <<budget, eventVars, storeVars, instVars, actVars, pageVars, fetchVars>>

(***************************************************************************)
(* Fetch events (part_000 lines 72-95).                                    *)
(***************************************************************************)
Request(method, path, dest, mode) ==
  [method |-> method, path |-> path, dest |-> dest, mode |-> mode]
NoReq == Request("", "", "", "")

\* the requests the page issues
Requests ==
  { Request("GET", "/api/x.js", "script", "cors"),
    Request("GET", "/api/pic", "image", "no-cors"),
    Request("GET", "/yacin-gym-logo.png", "image", "no-cors"),
    Request("GET", "/app.js", "script", "no-cors"),
    Request("GET", "/about", "document", "navigate"),
    Request("GET", "/", "document", "navigate"),
    Request("GET", "/manifest.json", "manifest", "cors"),
    Request("POST", "/api/save", "", "cors") }

\* the errors fetch() rejects with
Errors == {"TypeError: Failed to fetch", "AbortError"}

Slots == 1..MaxFetch

NoRes == [kind |-> "none", resp |-> NoResp, err |-> ""]
Returned(resp) == [kind |-> "response", resp |-> resp, err |-> ""]
Thrown(e) == [kind |-> "error", resp |-> NoResp, err |-> e]
\* the handler's promise resolved with undefined
Undefined == [kind |-> "undefined", resp |-> NoResp, err |-> ""]

NoBg == [st |-> "none", live |-> FALSE, resp |-> NoResp]
IdleEv ==
  [pc |-> "idle", req |-> NoReq, strat |-> "none", ns |-> "none", net |-> NoResp,
   err |-> "", res |-> NoRes, put |-> NoHandle, bg |-> NoBg]

\* the chain with the image test first
MutRoute(r) ==
  IF r.dest = "image"
    THEN [strat |-> "cacheFirst", ns |-> IMAGE_CACHE]
  ELSE IF StartsWith(r.path, "/api/")
    THEN [strat |-> "networkFirst", ns |-> DYNAMIC_CACHE]
  ELSE IF MatchesStaticSuffix(r.path)
    THEN [strat |-> "cacheFirst", ns |-> STATIC_CACHE]
  ELSE [strat |-> "networkFirst", ns |-> CACHE_NAME]

\* the if / else-if chain of the fetch handler, lines 82-94
Route(r) ==
  IF StartsWith(r.path, "/api/")
    THEN [strat |-> "networkFirst", ns |-> DYNAMIC_CACHE]
  ELSE IF r.dest = "image"
    THEN [strat |-> "cacheFirst", ns |-> IMAGE_CACHE]
  ELSE IF MatchesStaticSuffix(r.path)
    THEN [strat |-> "cacheFirst", ns |-> STATIC_CACHE]
  ELSE [strat |-> "networkFirst", ns |-> CACHE_NAME]

\* the handler and the strategy it calls, up to the strategy's first await:
\* fetch(request) in networkFirstStrategy, caches.match(request) in
\* cacheFirstStrategy.  A request that is not a GET is left to the browser.
Dispatch(r) ==
  IF r.method # "GET"
    THEN [IdleEv EXCEPT !.pc = "bypass", !.req = r]
    ELSE [IdleEv EXCEPT !.pc = IF Route(r).strat = "networkFirst"
                                 THEN "nfFetch" ELSE "cfMatch",
                        !.req = r, !.strat = Route(r).strat, !.ns = Route(r).ns]

\* the page's requests go to the active worker once the page is controlled
Serving == controlled /\ activeVer /\ swState # "activating"

FetchEvent(r) ==
  /\ Serving
  /\ fetches < budget.fetches
  /\ fetches' = fetches + 1
  /\ ev' = [ev EXCEPT ![fetches + 1] = Dispatch(r)]
  /\ UNCHANGED <<now, budget, eventVars, storeVars, instVars, actVars, pageVars>>

(***************************************************************************)
(* networkFirstStrategy (part_000 lines 98-124).                           *)
(***************************************************************************)
\* a strategy that treats a response that is not ok as a failure
MutNFAfterFetch(e, resp) ==
  IF resp.ok
    THEN [e EXCEPT !.pc = "nfOpen", !.net = resp]
    ELSE [e EXCEPT !.pc = "nfMatch", !.net = resp, !.err = "TypeError: Failed to fetch"]

\* line 100 resolves: an ok response goes on to await caches.open (line 104),
\* any other response is returned (line 108)
NFAfterFetch(e, resp) ==
  IF resp.ok
    THEN [e EXCEPT !.pc = "nfOpen", !.net = resp]
    ELSE [e EXCEPT !.pc = "done", !.net = resp, !.res = Returned(resp)]

\* (nothing reads the Date header of a response this strategy stores: the keys
\* cacheFirstStrategy looks up are never written by networkFirstStrategy)
NFFetchOk(s, ok) ==
  /\ ev[s].pc = "nfFetch"
  /\ ev' = [ev EXCEPT ![s] = NFAfterFetch(@, NetResp("fetch", s, ok, TRUE, Times[now]))]
  /\ UNCHANGED <<now, budget, eventVars, storeVars, instVars, actVars, pageVars, fetches>>

\* line 104 resolves: cache.put is called and not awaited (line 105), and the
\* response is returned (line 108)
NFAfterOpen(e) ==
  [e EXCEPT !.pc = "done", !.put = [st |-> "pending", live |-> TRUE],
            !.res = Returned(e.net)]

NFOpen(s) ==
  /\ ev[s].pc = "nfOpen"
  /\ cacheNames' = OpenNames(ev[s].ns)
  /\ ev' = [ev EXCEPT ![s] = NFAfterOpen(@)]
  /\ UNCHANGED <<now, budget, eventVars, ent, instVars, actVars, pageVars, fetches>>

\* the cache.put of line 105 or line 156 completes
PutCommit(s) ==
  /\ ev[s].put.st = "pending"
  /\ ent' = IF ev[s].put.live
              THEN [ent EXCEPT ![ev[s].ns][ev[s].req.path] = ev[s].net]
              ELSE ent
  /\ ev' = [ev EXCEPT ![s].put = [st |-> "done", live |-> FALSE]]
  /\ UNCHANGED <<now, budget, eventVars, cacheNames, instVars, actVars, pageVars, fetches>>

\* line 100 rejects: the catch block calls caches.match(request) (line 112)
NFAfterFail(e, error) == [e EXCEPT !.pc = "nfMatch", !.err = error]

NFFetchFail(s, error) ==
  /\ ev[s].pc = "nfFetch"
  /\ ev' = [ev EXCEPT ![s] = NFAfterFail(@, error)]
  /\ UNCHANGED <<now, budget, eventVars, storeVars, instVars, actVars, pageVars, fetches>>

\* the catch block throwing an error of its own
MutNFAfterMatch(e, cached) ==
  IF cached # NoResp
    THEN [e EXCEPT !.pc = "done", !.res = Returned(cached)]
  ELSE IF e.req.mode = "navigate"
    THEN [e EXCEPT !.pc = "nfRoot"]
  ELSE [e EXCEPT !.pc = "done", !.res = Thrown("Error: offline")]

\* line 112 resolves with cached: lines 113-122
NFAfterMatch(e, cached) ==
  IF cached # NoResp
    THEN [e EXCEPT !.pc = "done", !.res = Returned(cached)]
  ELSE IF e.req.mode = "navigate"
    THEN [e EXCEPT !.pc = "nfRoot"]
  ELSE [e EXCEPT !.pc = "done", !.res = Thrown(e.err)]

NFMatch(s) ==
  /\ ev[s].pc = "nfMatch"
  /\ ev' = [ev EXCEPT ![s] = NFAfterMatch(@, CachesMatch(@.req.path))]
  /\ UNCHANGED <<now, budget, eventVars, storeVars, instVars, actVars, pageVars, fetches>>

\* line 119: caches.match("/") is a promise, which is truthy, so the || never
\* takes its right-hand side; the async function resolves with whatever the
\* promise resolves with
NFAfterRoot(e, cached) ==
  [e EXCEPT !.pc = "done",
            !.res = IF cached # NoResp THEN Returned(cached) ELSE Undefined]

NFRoot(s) ==
  /\ ev[s].pc = "nfRoot"
  /\ ev' = [ev EXCEPT ![s] = NFAfterRoot(@, CachesMatch("/"))]
  /\ UNCHANGED <<now, budget, eventVars, storeVars, instVars, actVars, pageVars, fetches>>

(***************************************************************************)
(* cacheFirstStrategy (part_000 lines 127-164).                            *)
(***************************************************************************)
\* new Date(cachedResponse.headers.get("date") || 0), in milliseconds
cacheDate(resp) == IF resp.hasDate THEN resp.date ELSE 0

\* the window test with >= for >
MutIsStale(resp, t) == t - cacheDate(resp) >= oneHour

\* now - cacheDate > oneHour
IsStale(resp, t) == t - cacheDate(resp) > oneHour

\* a stale hit awaiting the refetch instead of returning the entry
MutCFAfterMatch(e, cached, t) ==
  IF cached # NoResp /\ ~IsStale(cached, t)
    THEN [e EXCEPT !.pc = "done", !.res = Returned(cached)]
    ELSE [e EXCEPT !.pc = "cfFetch"]

\* line 128 resolves with cached.  A hit: lines 130-148, where the refetch of
\* line 137 is started and not awaited.  A miss: fetch(request), line 152.
CFAfterMatch(e, cached, t) ==
  IF cached # NoResp
    THEN [e EXCEPT !.pc = "done", !.res = Returned(cached),
                   !.bg = IF IsStale(cached, t)
                            THEN [NoBg EXCEPT !.st = "fetching"] ELSE NoBg]
    ELSE [e EXCEPT !.pc = "cfFetch"]

CFMatch(s) ==
  /\ ev[s].pc = "cfMatch"
  /\ ev' = [ev EXCEPT ![s] = CFAfterMatch(@, CachesMatch(@.req.path), Times[now])]
  /\ UNCHANGED <<now, budget, eventVars, storeVars, instVars, actVars, pageVars, fetches>>

\* line 152 resolves: lines 154-159
CFAfterFetch(e, resp) ==
  IF resp.ok
    THEN [e EXCEPT !.pc = "cfOpen", !.net = resp]
    ELSE [e EXCEPT !.pc = "done", !.net = resp, !.res = Returned(resp)]

CFFetchOk(s, ok, hasDate) ==
  /\ ev[s].pc = "cfFetch"
  /\ ev' = [ev EXCEPT ![s] = CFAfterFetch(@, NetResp("fetch", s, ok, hasDate, Times[now]))]
  /\ UNCHANGED <<now, budget, eventVars, storeVars, instVars, actVars, pageVars, fetches>>

\* line 155 resolves: cache.put is called and not awaited, the response returned
CFAfterOpen(e) ==
  [e EXCEPT !.pc = "done", !.put = [st |-> "pending", live |-> TRUE],
            !.res = Returned(e.net)]

CFOpen(s) ==
  /\ ev[s].pc = "cfOpen"
  /\ cacheNames' = OpenNames(ev[s].ns)
  /\ ev' = [ev EXCEPT ![s] = CFAfterOpen(@)]
  /\ UNCHANGED <<now, budget, eventVars, ent, instVars, actVars, pageVars, fetches>>

\* line 152 rejects: lines 160-163
CFAfterFail(e, error) == [e EXCEPT !.pc = "done", !.err = error, !.res = Thrown(error)]

CFFetchFail(s, error) ==
  /\ ev[s].pc = "cfFetch"
  /\ ev' = [ev EXCEPT ![s] = CFAfterFail(@, error)]
  /\ UNCHANGED <<now, budget, eventVars, storeVars, instVars, actVars, pageVars, fetches>>

\* the refetch of line 137 resolves: lines 138-144
BgAfterFetch(b, resp) ==
  IF resp.ok
    THEN [b EXCEPT !.st = "opening", !.resp = resp]
    ELSE [b EXCEPT !.st = "dropped"]

BgFetchOk(s, ok, hasDate) ==
  /\ ev[s].bg.st = "fetching"
  /\ ev' = [ev EXCEPT ![s].bg =
              BgAfterFetch(@, NetResp("refetch", s, ok, hasDate, Times[now]))]
  /\ UNCHANGED <<now, budget, eventVars, storeVars, instVars, actVars, pageVars, fetches>>

\* the refetch rejects: .catch(() => {}), line 145
BgAfterFail(b) == [b EXCEPT !.st = "failed"]

BgFetchFail(s) ==
  /\ ev[s].bg.st = "fetching"
  /\ ev' = [ev EXCEPT ![s].bg = BgAfterFail(@)]
  /\ UNCHANGED <<now, budget, eventVars, storeVars, instVars, actVars, pageVars, fetches>>

\* caches.open(cacheName) of line 140 resolves; cache.put is called, line 141
BgOpen(s) ==
  /\ ev[s].bg.st = "opening"
  /\ cacheNames' = OpenNames(ev[s].ns)
  /\ ev' = [ev EXCEPT ![s].bg = [@ EXCEPT !.st = "putting", !.live = TRUE]]
  /\ UNCHANGED <<now, budget, eventVars, ent, instVars, actVars, pageVars, fetches>>

\* the cache.put of line 141 completes
BgPut(s) ==
  /\ ev[s].bg.st = "putting"
  /\ ent' = IF ev[s].bg.live
              THEN [ent EXCEPT ![ev[s].ns][ev[s].req.path] = ev[s].bg.resp]
              ELSE ent
  /\ ev' = [ev EXCEPT ![s].bg = [@ EXCEPT !.st = "done", !.live = FALSE]]
  /\ UNCHANGED <<now, budget, eventVars, cacheNames, instVars, actVars, pageVars, fetches>>

(***************************************************************************)
(* Window clients (the pages of the origin the browser has open).          *)
(***************************************************************************)
\* self.location.origin, and the URL of each window client
ORIGIN == "https://amino.gym"
ClientUrl(c) == IF c = 1 THEN "https://amino.gym/" ELSE "https://amino.gym/home"

OpenWindows == {c \in ClientIds : windows[c] # "closed"}
\* the window clients the active worker controls
ControlledWindows == {c \in ClientIds : windows[c] = "controlled"}

eventLogs == <<events, pushLog, clickLog, msgLog, syncLog>>
cacheSide == <<now, budget, storeVars, instVars, actVars, pageVars, fetchVars>>

\* the user opens a page of the origin; a page loaded with a hard reload is not
\* controlled
WindowOpen(c, ctl) ==
  /\ windows[c] = "closed"
  /\ windows' = [windows EXCEPT ![c] = IF ctl THEN "controlled" ELSE "uncontrolled"]
  /\ UNCHANGED <<cacheSide, eventLogs>>

WindowClose(c) ==
  /\ windows[c] # "closed"
  /\ windows' = [windows EXCEPT ![c] = "closed"]
  /\ UNCHANGED <<cacheSide, eventLogs>>

(***************************************************************************)
(* push (part_000 lines 205-249).                                          *)
(***************************************************************************)
\* line 208 is an Arabic literal; the model names it
DEFAULT_BODY == "notification from Amino Gym"
notificationData ==
  [title |-> "Amino Gym", body |-> DEFAULT_BODY,
   icon |-> "/yacin-gym-logo.png", badge |-> "/yacin-gym-logo.png"]

NoProps == [k \in {} |-> ""]

\* event.data.json(): JSON.parse of the payload's text.  ok: the text parses;
\* props: the own properties the parsed value has under the object spread of
\* line 215 (a number has none)
JsonParse(text) ==
  CASE text = "{\"title\":\"Promo\",\"url\":\"/offers\"}" ->
         [ok |-> TRUE, props |-> [title |-> "Promo", url |-> "/offers"]]
    [] text = "{\"body\":\"Open now\",\"url\":\"\"}" ->
         [ok |-> TRUE, props |-> [body |-> "Open now", url |-> ""]]
    [] text = "{\"icon\":\"/i.png\",\"badge\":\"/b.png\"}" ->
         [ok |-> TRUE, props |-> [icon |-> "/i.png", badge |-> "/b.png"]]
    [] text = "42" -> [ok |-> TRUE, props |-> NoProps]
    [] text = "Class at 6pm" -> [ok |-> FALSE, props |-> NoProps]
    [] text = "{\"title\":" -> [ok |-> FALSE, props |-> NoProps]
    [] text = "" -> [ok |-> FALSE, props |-> NoProps]

PushTexts ==
  { "{\"title\":\"Promo\",\"url\":\"/offers\"}",
    "{\"body\":\"Open now\",\"url\":\"\"}",
    "{\"icon\":\"/i.png\",\"badge\":\"/b.png\"}",
    "42", "Class at 6pm", "{\"title\":", "" }

\* event.data: null, or a payload with its text
NoData == [present |-> FALSE, text |-> ""]
PushData == {NoData} \cup {[present |-> TRUE, text |-> t] : t \in PushTexts}

\* { ...a, ...b }
Spread(a, b) ==
  [k \in DOMAIN a \cup DOMAIN b |-> IF k \in DOMAIN b THEN b[k] ELSE a[k]]

\* the catch block replacing the title
MutNotificationDataOf(data) ==
  IF ~data.present
    THEN notificationData
  ELSE IF JsonParse(data.text).ok
    THEN Spread(notificationData, JsonParse(data.text).props)
  ELSE [notificationData EXCEPT !.title = data.text]

\* lines 213-219: notificationData after the payload has been read
NotificationDataOf(data) ==
  IF ~data.present
    THEN notificationData
  ELSE IF JsonParse(data.text).ok
    THEN Spread(notificationData, JsonParse(data.text).props)
  ELSE [notificationData EXCEPT !.body = data.text]

\* a || b on strings: undefined and "" are falsy
Or(obj, k, default) ==
  IF k \in DOMAIN obj /\ obj[k] # "" THEN obj[k] ELSE default

\* options ignoring the payload's url
MutPushOptions(nd) ==
  [body |-> nd.body, icon |-> nd.icon, badge |-> nd.badge,
   url |-> "/", actions |-> <<"open", "close">>]

\* lines 221-244: the options of the notification (data.url, actions)
PushOptions(nd) ==
  [body |-> nd.body, icon |-> nd.icon, badge |-> nd.badge,
   url |-> Or(nd, "url", "/"), actions |-> <<"open", "close">>]

\* self.registration.showNotification(notificationData.title, options)
ShowNotification(nd) == [title |-> nd.title, options |-> PushOptions(nd)]

\* the handler runs to its end in one turn: showNotification is called and its
\* promise handed to event.waitUntil (lines 246-248)
PushEvent(data) ==
  /\ events < MaxEvents
  /\ events' = events + 1
  /\ pushLog' = Append(pushLog,
                  [data |-> data,
                   shown |-> <<ShowNotification(NotificationDataOf(data))>>,
                   life |-> "open"])
  /\ UNCHANGED <<cacheSide, windows, clickLog, msgLog, syncLog>>

\* the promise of showNotification settles: the event's lifetime ends
PushSettled(i) ==
  /\ i \in DOMAIN pushLog
  /\ pushLog[i].life = "open"
  /\ pushLog' = [pushLog EXCEPT ![i].life = "ended"]
  /\ UNCHANGED <<cacheSide, windows, events, clickLog, msgLog, syncLog>>

(***************************************************************************)
(* notificationclick (part_000 lines 252-282).                             *)
(***************************************************************************)
\* event.action: an action button's name, or "" for a click on the body
ClickActions == {"open", "close", ""}
\* event.notification.data: with a url (the push handler's notifications), or
\* without one
ClickData == {[url |-> "/offers"], NoProps}

\* a call the handler makes on the notification, on clients or on a client
Op(op, client, url) == [op |-> op, client |-> client, url |-> url]
WindowOps == {"focus", "navigate", "openWindow"}

\* a handler that returns early on "open"
MutClickHandler(action, data) ==
  IF action = "open"
    THEN [action |-> action, data |-> data, pc |-> "done", target |-> "",
          list |-> <<>>, ops |-> <<Op("close", 0, "")>>, life |-> "none"]
    ELSE [action |-> action, data |-> data, pc |-> "matchAll",
          target |-> Or(data, "url", "/"), list |-> <<>>,
          ops |-> <<Op("close", 0, ""), Op("matchAll", 0, "")>>, life |-> "open"]

\* lines 253-263: the handler up to the clients.matchAll call, whose promise
\* chain is handed to event.waitUntil
ClickHandler(action, data) ==
  IF action = "close"
    THEN [action |-> action, data |-> data, pc |-> "done", target |-> "",
          list |-> <<>>, ops |-> <<Op("close", 0, "")>>, life |-> "none"]
    ELSE [action |-> action, data |-> data, pc |-> "matchAll",
          target |-> Or(data, "url", "/"), list |-> <<>>,
          ops |-> <<Op("close", 0, ""), Op("matchAll", 0, "")>>, life |-> "open"]

NotificationClick(action, data) ==
  /\ events < MaxEvents
  /\ events' = events + 1
  /\ clickLog' = Append(clickLog, ClickHandler(action, data))
  /\ UNCHANGED <<cacheSide, windows, pushLog, msgLog, syncLog>>

\* client.url.includes(self.location.origin) && "focus" in client: a
\* WindowClient has focus
Matches(c) == Includes(ClientUrl(c), ORIGIN)

\* the loop without its return: every matching client, then a new window
MutClickOps(list, target) ==
  LET hits == SelectSeq(list, Matches)
  IN IF hits # <<>>
       THEN <<Op("focus", hits[1], ""), Op("navigate", hits[1], target),
              Op("openWindow", 0, target)>>
       ELSE <<Op("openWindow", 0, target)>>

\* lines 266-279: the first matching client is focused and navigated (a
\* WindowClient has navigate), and the loop returns; with no matching client
\* clients.openWindow(urlToOpen) is called
ClickOps(list, target) ==
  LET hits == SelectSeq(list, Matches)
  IN IF hits # <<>>
       THEN <<Op("focus", hits[1], ""), Op("navigate", hits[1], target)>>
       ELSE <<Op("openWindow", 0, target)>>

\* the orders in which matchAll can list the clients of S
Orders(S) ==
  {l \in [1..Cardinality(S) -> S] : \A i, j \in DOMAIN l : l[i] = l[j] => i = j}

\* matchAll({ type: "window", includeUncontrolled: true }) resolves with the open
\* windows.  focus() and navigate() are not awaited and the callback returns
\* undefined, so with a matching client the waitUntil promise resolves here;
\* otherwise it waits for openWindow.
ClickAfterMatchAll(e, list) ==
  LET ops == ClickOps(list, e.target)
  IN [e EXCEPT !.list = list, !.ops = @ \o ops,
               !.pc = IF ops[1].op = "openWindow" THEN "opening" ELSE "done",
               !.life = IF ops[1].op = "openWindow" THEN "open" ELSE "ended"]

ClickMatchAll(i, list) ==
  /\ i \in DOMAIN clickLog
  /\ clickLog[i].pc = "matchAll"
  /\ list \in Orders(OpenWindows)
  /\ clickLog' = [clickLog EXCEPT ![i] = ClickAfterMatchAll(@, list)]
  /\ UNCHANGED <<cacheSide, windows, events, pushLog, msgLog, syncLog>>

\* clients.openWindow resolves: the new window is open
ClickOpened(i, c) ==
  /\ i \in DOMAIN clickLog
  /\ clickLog[i].pc = "opening"
  /\ windows[c] = "closed"
  /\ windows' = [windows EXCEPT ![c] = "controlled"]
  /\ clickLog' = [clickLog EXCEPT ![i].pc = "done", ![i].life = "ended"]
  /\ UNCHANGED <<cacheSide, events, pushLog, msgLog, syncLog>>

(***************************************************************************)
(* message (part_000 lines 285-295).                                       *)
(***************************************************************************)
\* event.data: null, or an object with a type
MessageTypes == {"null", "SKIP_WAITING", "GET_VERSION", "PING"}

\* a reply carrying the version number instead of the namespace name
MutMessageHandler(type, hasPort) ==
  [type |-> type, port |-> hasPort,
   skip |-> (type = "SKIP_WAITING"),
   replies |-> IF type = "GET_VERSION" /\ hasPort
                 THEN <<[version |-> "v2"]>> ELSE <<>>,
   threw |-> (type = "GET_VERSION" /\ ~hasPort)]

\* lines 288-294.  skip: self.skipWaiting() is called; replies: the messages
\* posted on event.ports[0]; threw: event.ports[0] is undefined and the
\* postMessage call throws a TypeError
MessageHandler(type, hasPort) ==
  [type |-> type, port |-> hasPort,
   skip |-> (type = "SKIP_WAITING"),
   replies |-> IF type = "GET_VERSION" /\ hasPort
                 THEN <<[version |-> CACHE_NAME]>> ELSE <<>>,
   threw |-> (type = "GET_VERSION" /\ ~hasPort)]

MessageEvent(type, hasPort) ==
  /\ events < MaxEvents
  /\ events' = events + 1
  /\ msgLog' = Append(msgLog, MessageHandler(type, hasPort))
  /\ skipWaiting' = (skipWaiting \/ MessageHandler(type, hasPort).skip)
  /\ UNCHANGED <<now, budget, storeVars, swState, installs, addAll, actVars,
                 pageVars, fetchVars, windows, pushLog, clickLog, syncLog>>

(***************************************************************************)
(* sync, periodicsync and doBackgroundSync (part_000 lines 167-202 and     *)
(* 298-304).                                                               *)
(***************************************************************************)
SyncKinds == {"sync", "periodicsync"}
SyncTags == {"background-sync", "content-sync"}

NoneSent == [c \in ClientIds |-> <<>>]

\* lines 170-172 and 300-302: event.waitUntil(doBackgroundSync()) for the tag
\* "background-sync"; doBackgroundSync runs up to await self.clients.matchAll()
SyncHandler(kind, tag) ==
  IF tag = "background-sync"
    THEN [kind |-> kind, tag |-> tag, pc |-> "matchAll", snap |-> {},
          sent |-> NoneSent, life |-> "open"]
    ELSE [kind |-> kind, tag |-> tag, pc |-> "ignored", snap |-> {},
          sent |-> NoneSent, life |-> "none"]

SyncEvent(kind, tag) ==
  /\ events < MaxEvents
  /\ events' = events + 1
  /\ syncLog' = Append(syncLog, SyncHandler(kind, tag))
  /\ UNCHANGED <<cacheSide, windows, pushLog, clickLog, msgLog>>

\* clients.forEach((client) => client.postMessage({ type: "BACKGROUND_SYNC",
\* payload: { status } }))
Post(sent, clients, status) ==
  [c \in ClientIds |-> IF c \in clients THEN Append(sent[c], status) ELSE sent[c]]

\* line 180 resolves with the window clients the worker controls; lines 181-186
\* post "started" to each; line 189 starts the timer
SyncAfterMatchAll(e, clients) ==
  [e EXCEPT !.snap = clients, !.sent = Post(@, clients, "started"), !.pc = "timer"]

SyncMatchAll(i) ==
  /\ i \in DOMAIN syncLog
  /\ syncLog[i].pc = "matchAll"
  /\ syncLog' = [syncLog EXCEPT ![i] = SyncAfterMatchAll(@, ControlledWindows)]
  /\ UNCHANGED <<cacheSide, windows, events, pushLog, clickLog, msgLog>>

\* a run that ends without the second round of messages
MutSyncAfterTimer(e) ==
  [e EXCEPT !.pc = "done", !.life = "ended"]

\* the timer of line 189 fires: lines 191-196 post "completed" to the clients of
\* line 180, and doBackgroundSync returns
SyncAfterTimer(e) ==
  [e EXCEPT !.sent = Post(@, e.snap, "completed"), !.pc = "done", !.life = "ended"]

SyncTimer(i) ==
  /\ i \in DOMAIN syncLog
  /\ syncLog[i].pc = "timer"
  /\ syncLog' = [syncLog EXCEPT ![i] = SyncAfterTimer(@)]
  /\ UNCHANGED <<cacheSide, windows, events, pushLog, clickLog, msgLog>>

(***************************************************************************)
(* The system.                                                             *)
(***************************************************************************)
\* storage holds what earlier deployments left; the worker script is new
InitWith(b) ==
  /\ now = 1
  /\ budget = b
  /\ cacheNames = <<OLD_CACHE, PAGES_CACHE>>
  /\ ent = [n \in AllCaches |-> EmptyCache]
  /\ swState = "parsed"
  /\ installs = 0
  /\ addAll = [n \in InstallCaches |-> NoHandle]
  /\ skipWaiting = FALSE
  /\ act = NoAct
  /\ activeVer = FALSE
  /\ controlled = FALSE
  /\ pagePc = "idle"
  /\ pageDel = <<>>
  /\ loads = 0
  /\ fetches = 0
  /\ ev = [s \in Slots |-> IdleEv]
  /\ windows = [c \in ClientIds |-> "closed"]
  /\ events = 0
  /\ pushLog = <<>>
  /\ clickLog = <<>>
  /\ msgLog = <<>>
  /\ syncLog = <<>>

Init == InitWith([fetches |-> MaxFetch, loads |-> MaxLoads, installs |-> MaxInstalls])
InitLife == InitWith([fetches |-> LifeFetch, loads |-> LifeLoads, installs |-> LifeInstalls])

Next ==
  \/ InstallStart
  \/ \E n \in InstallCaches : InstallOpen(n)
  \/ \E n \in InstallCaches : AddAllOk(n)
  \/ \E n \in InstallCaches : AddAllFail(n)
  \/ InstallDone
  \/ InstallFail
  \/ ActivateStart
  \/ ActivateKeys
  \/ \E n \in AllCaches : ActivateDelete(n)
  \/ ClaimDone
  \/ ActivateDone
  \/ PageLoad
  \/ PageRegistered
  \/ PageKeys
  \/ \E n \in AllCaches : PageDelete(n)
  \/ PageCleared
  \/ Tick
  \/ \E r \in Requests : FetchEvent(r)
  \/ \E s \in Slots, ok \in BOOLEAN : NFFetchOk(s, ok)
  \/ \E s \in Slots : NFOpen(s)
  \/ \E s \in Slots : PutCommit(s)
  \/ \E s \in Slots, error \in Errors : NFFetchFail(s, error)
  \/ \E s \in Slots : NFMatch(s)
  \/ \E s \in Slots : NFRoot(s)
  \/ \E s \in Slots : CFMatch(s)
  \/ \E s \in Slots, ok \in BOOLEAN, hasDate \in BOOLEAN : CFFetchOk(s, ok, hasDate)
  \/ \E s \in Slots : CFOpen(s)
  \/ \E s \in Slots, error \in Errors : CFFetchFail(s, error)
  \/ \E s \in Slots, ok \in BOOLEAN, hasDate \in BOOLEAN : BgFetchOk(s, ok, hasDate)
  \/ \E s \in Slots : BgFetchFail(s)
  \/ \E s \in Slots : BgOpen(s)
  \/ \E s \in Slots : BgPut(s)

Spec == Init /\ [][Next]_vars
SpecLife == InitLife /\ [][Next]_vars

\* the worker after its first install and activation, in control of the page
\* that registered it, whose clearOldCaches has still to list the namespaces
Activated ==
  /\ now = 1
  /\ budget = [fetches |-> MaxFetch, loads |-> MaxLoads, installs |-> MaxInstalls]
  /\ cacheNames = <<CACHE_NAME, STATIC_CACHE>>
  /\ ent = [n \in AllCaches |->
              [k \in Keys |->
                 IF n \in InstallCaches /\ k \in Manifest(n)
                   THEN NetResp("addAll", 1, TRUE, TRUE, Times[1]) ELSE NoResp]]
  /\ swState = "activated"
  /\ installs = 1
  /\ addAll = [n \in InstallCaches |-> [st |-> "done", live |-> FALSE]]
  /\ skipWaiting = TRUE
  /\ act = [keys |-> "done", del |-> {}, claim |-> "done"]
  /\ activeVer = TRUE
  /\ controlled = TRUE
  /\ pagePc = "keys"
  /\ pageDel = <<>>
  /\ loads = 1
  /\ fetches = 0
  /\ ev = [s \in Slots |-> IdleEv]

InitEvents ==
  /\ Activated
  /\ windows = [c \in ClientIds |-> IF c = 1 THEN "controlled" ELSE "closed"]
  /\ events = 0
  /\ pushLog = <<>>
  /\ clickLog = <<>>
  /\ msgLog = <<>>
  /\ syncLog = <<>>

\* the events the browser delivers to the active worker
NextEvents ==
  \/ \E c \in ClientIds, ctl \in BOOLEAN : WindowOpen(c, ctl)
  \/ \E c \in ClientIds : WindowClose(c)
  \/ \E data \in PushData : PushEvent(data)
  \/ \E i \in 1..MaxEvents : PushSettled(i)
  \/ \E action \in ClickActions, data \in ClickData : NotificationClick(action, data)
  \/ \E i \in 1..MaxEvents, list \in Orders(OpenWindows) : ClickMatchAll(i, list)
  \/ \E i \in 1..MaxEvents, c \in ClientIds : ClickOpened(i, c)
  \/ \E type \in MessageTypes, hasPort \in BOOLEAN : MessageEvent(type, hasPort)
  \/ \E kind \in SyncKinds, tag \in SyncTags : SyncEvent(kind, tag)
  \/ \E i \in 1..MaxEvents : SyncMatchAll(i)
  \/ \E i \in 1..MaxEvents : SyncTimer(i)

SpecEvents == InitEvents /\ [][NextEvents]_vars

(***************************************************************************)
(* Properties.                                                             *)
(***************************************************************************)
Path(s) == ev[s].req.path
\* slot s returns in this step
Returns(s) == ev[s].pc \notin {"done", "bypass"} /\ ev'[s].pc = "done"

\* C1: when networkFirstStrategy returns the ok response of its network fetch,
\* the response is stored under the request key in the namespace it was called
\* with (DYNAMIC_CACHE for API, CACHE_NAME for Document).
C1_StoredBeforeReturn ==
  [][\A s \in Slots :
       (/\ Returns(s)
        /\ ev'[s].strat = "networkFirst"
        /\ ev'[s].net.ok
        /\ ev'[s].res = Returned(ev'[s].net))
       => Stored(ev[s].ns, Path(s))' = ev'[s].net]_vars

\* C2: a navigation request whose network fetch failed and for which the
\* lookups of the request and of "/" both find nothing resolves with the
\* synthesized 503 "Offline" response.
C2_OfflineResponse ==
  [][\A s \in Slots :
       (/\ ev[s].pc = "nfRoot"
        /\ ev'[s].pc = "done"
        /\ CachesMatch(Path(s)) = NoResp
        /\ CachesMatch("/") = NoResp)
       => ev'[s].res = Returned(OfflineResp)]_vars

\* C3: a non-navigation request of networkFirstStrategy whose network fetch
\* failed and whose lookup finds nothing fails with the error the fetch
\* rejected with, and the steps from the rejection to the failure leave Cache
\* Storage as it is.
C3_FailureSurfaced ==
  /\ [](\A s \in Slots :
          (ev[s].pc = "nfMatch" => ev[s].err \in Errors)
          /\ (ev[s].strat = "networkFirst" /\ ev[s].res.kind = "error"
                => ev[s].res = Thrown(ev[s].err) /\ ev[s].err \in Errors))
  /\ [][\A s \in Slots :
          /\ (ev[s].pc = "nfFetch" /\ ev'[s].pc = "nfMatch")
               => UNCHANGED storeVars
          /\ (/\ ev[s].pc = "nfMatch"
              /\ ev'[s].pc # "nfMatch"
              /\ ev[s].req.mode # "navigate"
              /\ CachesMatch(Path(s)) = NoResp)
               => (ev'[s].pc = "done" /\ ev'[s].res = Thrown(ev[s].err)
                   /\ ev'[s].err = ev[s].err /\ UNCHANGED storeVars)]_vars

C3_Witness ==
  \E s \in Slots :
    /\ ev[s].pc = "done"
    /\ ev[s].strat = "networkFirst"
    /\ ev[s].req.mode # "navigate"
    /\ ev[s].res = Thrown("AbortError")

\* C4: when the lookup of cacheFirstStrategy finds an entry, the strategy
\* returns that entry in the very step the lookup resolves, fresh or stale: any
\* refetch is then at most in flight, and whatever the network does afterwards
\* the result stays what it was.
C4_HitReturnsAtOnce ==
  [][\A s \in Slots :
       /\ (/\ ev[s].pc = "cfMatch"
           /\ ev'[s].pc # "cfMatch"
           /\ CachesMatch(Path(s)) # NoResp)
            => (/\ ev'[s].pc = "done"
                /\ ev'[s].res = Returned(CachesMatch(Path(s)))
                /\ ev'[s].bg.st \in {"none", "fetching"})
       /\ (ev[s].pc = "done" /\ ev[s].strat = "cacheFirst")
            => (ev'[s].pc = "done" /\ ev'[s].res = ev[s].res)]_vars

\* a stale hit has been returned and its refetch has not been answered
C4_Witness ==
  \E s \in Slots :
    /\ ev[s].pc = "done"
    /\ ev[s].strat = "cacheFirst"
    /\ ev[s].res.kind = "response"
    /\ ev[s].net = NoResp
    /\ ev[s].bg.st = "fetching"

\* C5 as claimed: on a hit the refetch is issued if and only if the entry is
\* older than one hour, the entry's age being the time since the network
\* produced it.
C5_RefetchIffOlder ==
  [][\A s \in Slots :
       (ev[s].pc = "cfMatch" /\ ev'[s].pc = "done")
         => ((ev'[s].bg.st = "fetching")
               <=> (Times[now] - CachesMatch(Path(s)).at > oneHour))]_vars

\* C5 as amended: on a hit the refetch is issued if and only if the entry has no
\* Date header or its Date header is more than one hour before the current
\* time; the entry itself is what is returned; and a refetch that fails changes
\* neither Cache Storage nor what the caller got.
C5_RefetchIffStaleHeader ==
  [][\A s \in Slots :
       /\ (ev[s].pc = "cfMatch" /\ ev'[s].pc = "done")
            => (/\ CachesMatch(Path(s)) # NoResp
                /\ ev'[s].res = Returned(CachesMatch(Path(s)))
                /\ ev'[s].bg.st \in {"none", "fetching"}
                /\ (ev'[s].bg.st = "fetching")
                     <=> (\/ ~CachesMatch(Path(s)).hasDate
                          \/ Times[now] - CachesMatch(Path(s)).date > 60 * 60 * 1000))
       /\ (ev[s].bg.st = "fetching" /\ ev'[s].bg.st = "failed")
            => (UNCHANGED storeVars /\ ev'[s].res = ev[s].res
                /\ ev'[s].pc = ev[s].pc)]_vars

\* a stale hit was returned and its refetch failed
C5_Witness ==
  \E s \in Slots :
    /\ ev[s].pc = "done"
    /\ ev[s].res.kind = "response"
    /\ ev[s].res.resp.hasDate
    /\ ev[s].bg.st = "failed"

\* what addAll of the running install writes under a key of its manifest
Precached == NetResp("addAll", installs, TRUE, TRUE, Times[now])
WrittenBy(n, k, i) == Stored(n, k).kind = "addAll" /\ Stored(n, k).id = i

\* C6 as claimed, in its "no other entry present": when install completes,
\* CACHE_NAME holds no entry outside CRITICAL_RESOURCES and STATIC_CACHE none
\* outside STATIC_ASSETS.
C6_NoOtherEntry ==
  [][(swState = "installing" /\ swState' = "installed")
       => (/\ KeysOf(CACHE_NAME)' \subseteq CRITICAL_RESOURCES
           /\ KeysOf(STATIC_CACHE)' \subseteq STATIC_ASSETS)]_vars

\* C6 as amended: install completes only when both addAll batches have; a batch
\* writes every entry of its manifest to the namespace it opened, in one step,
\* and touches no other entry and no other namespace; and no other step of the
\* install changes an entry.  What was in the namespaces before stays.
C6_InstallAddsManifest ==
  /\ [](swState = "installed" => \A n \in InstallCaches : addAll[n].st = "done")
  /\ [][\A n \in InstallCaches :
          /\ (addAll[n].st = "adding" /\ addAll'[n].st = "done")
               => (/\ cacheNames' = cacheNames
                   /\ \A m \in AllCaches, k \in Keys :
                        ent'[m][k] = IF m = n /\ addAll[n].live /\ k \in Manifest(n)
                                       THEN Precached ELSE ent[m][k])
          /\ (addAll[n].st = "opening" /\ addAll'[n].st = "adding")
               => (ent' = ent /\ Range(cacheNames') = Range(cacheNames) \cup {n})
          /\ (swState = "installing" /\ swState' # "installing")
               => UNCHANGED storeVars]_vars

\* install has completed over namespaces that hold more than the manifest
C6_Witness ==
  /\ swState = "installed"
  /\ CRITICAL_RESOURCES \subseteq KeysOf(CACHE_NAME)
  /\ "/about" \in KeysOf(CACHE_NAME)
  /\ \A k \in CRITICAL_RESOURCES : WrittenBy(CACHE_NAME, k, installs)

\* C7 as claimed: when activation is reported done, the existing namespaces are
\* exactly the four current ones.
C7_ExactlyFour ==
  [][(swState = "activating" /\ swState' = "activated")
       => Range(cacheNames') = {CACHE_NAME, STATIC_CACHE, DYNAMIC_CACHE, IMAGE_CACHE}]_vars

\* C7 as amended: once activation is reported done, no namespace outside the
\* four current ones exists; the four need not all exist.
C7_OnlyCurrent ==
  swState = "activated"
    => Range(cacheNames) \subseteq {CACHE_NAME, STATIC_CACHE, DYNAMIC_CACHE, IMAGE_CACHE}

\* activation is done over storage that held old namespaces, and two of the
\* four current namespaces have never been created
C7_Witness ==
  /\ swState = "activated"
  /\ installs = 1
  /\ fetches = 0
  /\ Range(cacheNames) = {CACHE_NAME, STATIC_CACHE}

\* C8 as claimed: after an install that failed, skipWaiting has not been called
\* and neither CACHE_NAME nor STATIC_CACHE holds an entry that install wrote.
C8_NothingLeft ==
  swState = "redundant"
    => (/\ ~skipWaiting
        /\ \A n \in InstallCaches, k \in Keys : ~WrittenBy(n, k, installs))

\* C8 as amended: once an addAll of the install has failed the install never
\* completes and skipWaiting is not called; the failed addAll writes nothing;
\* and whatever the install writes to a namespace is that namespace's whole
\* manifest, in one step - so the namespace whose addAll succeeded keeps its
\* complete batch.
C8_FailedInstall ==
  /\ []((\E n \in InstallCaches : addAll[n].st = "failed")
          => (swState \in {"installing", "redundant"} /\ ~skipWaiting))
  /\ [][\A n \in InstallCaches :
          /\ (addAll[n].st = "adding" /\ addAll'[n].st = "failed")
               => UNCHANGED storeVars
          /\ (\E k \in Keys : ent'[n][k] # ent[n][k] /\ ent'[n][k].kind = "addAll")
               => (\A k \in Manifest(n) : ent'[n][k] = Precached)]_vars

\* the install failed on STATIC_CACHE and CACHE_NAME holds its whole batch
C8_Witness ==
  /\ swState = "redundant"
  /\ addAll[STATIC_CACHE].st = "failed"
  /\ \A k \in CRITICAL_RESOURCES : WrittenBy(CACHE_NAME, k, installs)

\* C9: a current namespace is removed from storage only by a delete of the
\* activate handler.
C9_OnlyActivateDeletes ==
  [][\A n \in {CACHE_NAME, STATIC_CACHE, DYNAMIC_CACHE, IMAGE_CACHE} :
       (n \in Range(cacheNames) /\ n \notin Range(cacheNames'))
         => (n \in act.del /\ n \notin act'.del)]_vars

\* C10: a request that is not a GET is not intercepted and causes no cache read
\* or write; a GET is handled by the strategy and namespace of the first rule
\* it matches, in the order /api/ prefix, image destination, static suffix,
\* otherwise; GET /api/x.js and a GET of an /api/ image are handled as API.
C10_Classification ==
  /\ [](\A s \in Slots :
          LET e == ev[s]
              r == e.req
          IN e.pc # "idle" =>
               /\ r.method # "GET"
                    => (/\ e.pc = "bypass"
                        /\ e.strat = "none"
                        /\ e.res = NoRes /\ e.put = NoHandle /\ e.bg = NoBg)
               /\ r.method = "GET"
                    => (/\ e.pc # "bypass"
                        /\ <<e.strat, e.ns>> =
                             IF StartsWith(r.path, "/api/")
                               THEN <<"networkFirst", DYNAMIC_CACHE>>
                             ELSE IF r.dest = "image"
                               THEN <<"cacheFirst", IMAGE_CACHE>>
                             ELSE IF \E x \in {"js", "css", "woff", "woff2"} :
                                       EndsWithDot(r.path, x)
                               THEN <<"cacheFirst", STATIC_CACHE>>
                             ELSE <<"networkFirst", CACHE_NAME>>)
               /\ (r.method = "GET" /\ r.path \in {"/api/x.js", "/api/pic"})
                    => (e.strat = "networkFirst" /\ e.ns = DYNAMIC_CACHE))
  /\ [][\A s \in Slots :
          (ev[s].pc = "idle" /\ ev'[s].pc = "bypass") => UNCHANGED storeVars]_vars

\* an /api/ request with a static suffix, one with an image destination and a
\* POST have all been dispatched
C10_Witness ==
  \E s, t \in Slots :
    /\ ev[s].req = Request("GET", "/api/pic", "image", "no-cors")
    /\ ev[s].ns = DYNAMIC_CACHE
    /\ ev[s].pc = "done"
    /\ ev[t].req.method = "POST"
    /\ ev[t].pc = "bypass"

\* C11: a push event whose payload does not parse as JSON shows a notification
\* whose body is the payload's raw text and whose title, icon and badge are the
\* defaults, "Amino Gym" and "/yacin-gym-logo.png".
C11_RawTextBody ==
  \A i \in DOMAIN pushLog :
    LET e == pushLog[i]
    IN (e.data.present /\ e.data.text \in {"Class at 6pm", "{\"title\":", ""})
         => /\ Len(e.shown) = 1
            /\ e.shown[1].options.body = e.data.text
            /\ e.shown[1].title = "Amino Gym"
            /\ e.shown[1].options.icon = "/yacin-gym-logo.png"
            /\ e.shown[1].options.badge = "/yacin-gym-logo.png"

\* a push with a plain-text payload has been handled to its end
C11_Witness ==
  \E i \in DOMAIN pushLog :
    /\ pushLog[i].data = [present |-> TRUE, text |-> "Class at 6pm"]
    /\ pushLog[i].shown[1].options.body = "Class at 6pm"
    /\ pushLog[i].life = "ended"

\* the url a payload supplies: the url property of the parsed object, when
\* there is one and it is not empty
SuppliedUrl(data) ==
  IF data.present /\ data.text = "{\"title\":\"Promo\",\"url\":\"/offers\"}"
    THEN "/offers" ELSE "/"

\* C12: every push event - no payload, a malformed one, any JSON - makes exactly
\* one showNotification call, made by the handler itself so that the event's
\* lifetime covers it; the call's actions are open and close, in that order,
\* and its data.url is the url the payload supplies, "/" when it supplies none.
C12_AlwaysOneNotification ==
  /\ [](/\ Len(pushLog) + Len(clickLog) + Len(msgLog) + Len(syncLog) = events
        /\ \A i \in DOMAIN pushLog :
             LET e == pushLog[i]
             IN /\ Len(e.shown) = 1
                /\ e.shown[1].options.actions = <<"open", "close">>
                /\ e.shown[1].options.url = SuppliedUrl(e.data))
  /\ [][/\ \A i \in DOMAIN pushLog :
             /\ i \in DOMAIN pushLog'
             /\ pushLog'[i].shown = pushLog[i].shown
             /\ pushLog[i].life = "ended" => pushLog'[i].life = "ended"
        /\ \A i \in DOMAIN pushLog' \ DOMAIN pushLog :
             pushLog'[i].life = "open"]_vars

\* a push without payload and a push whose payload names a url have both been
\* handled to their end
C12_Witness ==
  \E i, j \in DOMAIN pushLog :
    /\ pushLog[i].data = NoData
    /\ pushLog[i].shown[1].options.url = "/"
    /\ pushLog[j].shown[1].options.url = "/offers"
    /\ pushLog[i].life = "ended"
    /\ pushLog[j].life = "ended"

\* the calls of a handler run that act on windows
WindowCalls(e) == SelectSeq(e.ops, LAMBDA o : o.op \in WindowOps)

\* C13: a notification click with action "close" closes the notification and
\* does nothing else: no matchAll, no focus, no navigate, no openWindow, no
\* waitUntil, and the windows stay as they are.
C13_CloseOnlyCloses ==
  /\ [](\A i \in DOMAIN clickLog :
          clickLog[i].action = "close"
            => /\ clickLog[i].ops = <<Op("close", 0, "")>>
               /\ clickLog[i].pc = "done"
               /\ clickLog[i].life = "none")
  /\ [][\A i \in DOMAIN clickLog' :
          (clickLog'[i].action = "close"
             /\ (i \notin DOMAIN clickLog \/ clickLog'[i] # clickLog[i]))
            => UNCHANGED windows]_vars

\* a "close" click was handled while a window of the application was open
C13_Witness ==
  \E i \in DOMAIN clickLog :
    /\ clickLog[i].action = "close"
    /\ OpenWindows # {}

\* the clients of list whose URL is of the application's origin
Matching(list) == {c \in Range(list) : Includes(ClientUrl(c), "https://amino.gym")}

\* C14: for a click with another action, once the clients are listed: a window
\* is opened at the target URL iff no listed window matches the origin; with a
\* match the handler calls focus and navigate(target) on one matching client,
\* and on no other, and opens no window.  The clients listed are the windows
\* open at that moment, and the target is the notification's data.url or "/".
C14_FocusOrOpen ==
  /\ [](\A i \in DOMAIN clickLog :
          LET e == clickLog[i]
          IN e.action # "close" =>
               /\ e.target = (IF e.data = [url |-> "/offers"] THEN "/offers" ELSE "/")
               /\ e.pc = "matchAll" => WindowCalls(e) = <<>>
               /\ e.pc # "matchAll" =>
                    IF Matching(e.list) = {}
                      THEN WindowCalls(e) = <<Op("openWindow", 0, e.target)>>
                      ELSE \E c \in Matching(e.list) :
                             WindowCalls(e) =
                               <<Op("focus", c, ""), Op("navigate", c, e.target)>>)
  /\ [][\A i \in DOMAIN clickLog :
          (clickLog[i].pc = "matchAll" /\ clickLog'[i].pc # "matchAll")
            => Range(clickLog'[i].list) = OpenWindows]_vars

\* one click found two windows open and focused one; another found none and
\* opened a window
C14_Witness ==
  \E i, j \in DOMAIN clickLog :
    /\ Len(clickLog[i].list) = 2
    /\ Len(WindowCalls(clickLog[i])) = 2
    /\ clickLog[j].list = <<>>
    /\ clickLog[j].pc = "done"
    /\ Len(WindowCalls(clickLog[j])) = 1

\* C15: a GET_VERSION message with a reply port is answered with exactly one
\* message on the port, whose version is "amino-gym-v2"; handling it changes
\* neither Cache Storage nor the worker's lifecycle state.
C15_VersionReply ==
  /\ [](\A i \in DOMAIN msgLog :
          (msgLog[i].type = "GET_VERSION" /\ msgLog[i].port)
            => /\ msgLog[i].replies = <<[version |-> "amino-gym-v2"]>>
               /\ ~msgLog[i].skip
               /\ ~msgLog[i].threw)
  /\ [][\A i \in DOMAIN msgLog' \ DOMAIN msgLog :
          msgLog'[i].type = "GET_VERSION"
            => UNCHANGED <<storeVars, instVars, actVars>>]_vars

C15_Witness ==
  \E i \in DOMAIN msgLog :
    /\ msgLog[i].type = "GET_VERSION"
    /\ msgLog[i].port
    /\ Len(msgLog[i].replies) = 1

\* C16: for a sync or periodicsync event with the tag "background-sync", every
\* client the worker enumerates - the window clients it controls at that moment -
\* is sent "started" once and then "completed" once, no other client is sent
\* anything, and the event's lifetime ends only when all of it is sent; an
\* event with another tag sends nothing.
C16_StartedThenCompleted ==
  /\ [](\A i \in DOMAIN syncLog :
          LET e == syncLog[i]
          IN /\ e.tag # "background-sync"
                  => (e.sent = [c \in ClientIds |-> <<>>] /\ e.life = "none")
             /\ e.tag = "background-sync"
                  => /\ e.pc \in {"matchAll", "timer", "done"}
                     /\ e.life = "ended" <=> e.pc = "done"
                     /\ \A c \in ClientIds :
                          e.sent[c] =
                            IF e.pc = "matchAll" \/ c \notin e.snap THEN <<>>
                            ELSE IF e.pc = "timer" THEN <<"started">>
                            ELSE <<"started", "completed">>)
  /\ [][\A i \in DOMAIN syncLog :
          (syncLog[i].pc = "matchAll" /\ syncLog'[i].pc # "matchAll")
            => syncLog'[i].snap = ControlledWindows]_vars

\* a sync and a periodicsync have both run to their end with two clients
C16_Witness ==
  \E i, j \in DOMAIN syncLog :
    /\ syncLog[i].kind = "sync"
    /\ syncLog[j].kind = "periodicsync"
    /\ syncLog[i].pc = "done"
    /\ syncLog[j].pc = "done"
    /\ Cardinality(syncLog[i].snap) = 2
    /\ syncLog[j].snap # {}

\* C17: no fetch handler's lifetime - that of the promise given to respondWith -
\* ends while a cache write the handler started is still pending.
C17_WritesInsideLifetime ==
  \A s \in Slots :
    ev[s].pc = "done" => (ev[s].put.st # "pending" /\ ev[s].bg.st # "putting")

\* C18: when the write of a background refetch completes in storage, a lookup
\* of the same request finds the refreshed response.
C18_RefreshReplacesStale ==
  [][\A s \in Slots :
       (ev[s].bg.st = "putting" /\ ev[s].bg.live /\ ev'[s].bg.st = "done")
         => CachesMatch(Path(s))' = ev[s].bg.resp]_vars

\* C19: the entry networkFirstStrategy returns for the request after a failed
\* fetch is the entry of the namespace the strategy was called with.
C19_FallbackFromOwnNamespace ==
  [][\A s \in Slots :
       (ev[s].pc = "nfMatch" /\ ev'[s].pc = "done" /\ ev'[s].res.kind = "response")
         => ev'[s].res.resp = Stored(ev[s].ns, Path(s))]_vars

\* C20: in networkFirstStrategy a fetch that completes decides the result: the
\* network response is what the caller gets, ok or not, cached entry or not; a
\* response that is not ok starts no cache write and no stored entry is one; a
\* response that is not the network's is returned only after the fetch failed.
C20_NetworkPreferred ==
  /\ [](/\ \A n \in AllCaches, k \in Keys : ent[n][k] # NoResp => ent[n][k].ok
        /\ \A s \in Slots :
             ev[s].strat = "networkFirst" =>
               /\ (ev[s].net # NoResp /\ ev[s].pc = "done")
                    => ev[s].res = Returned(ev[s].net)
               /\ (ev[s].net # NoResp /\ ~ev[s].net.ok) => ev[s].put = NoHandle
               /\ ev[s].net # NoResp => ev[s].err = ""
               /\ (ev[s].res.kind = "response" /\ ev[s].res.resp # ev[s].net)
                    => ev[s].err \in Errors)
  /\ [][\A s \in Slots :
          (ev[s].pc = "nfFetch" /\ ev'[s].net # NoResp /\ ~ev'[s].net.ok)
            => (/\ ev'[s].pc = "done"
                /\ ev'[s].res = Returned(ev'[s].net)
                /\ UNCHANGED storeVars)]_vars

\* a response that is not ok was returned for a request that has a cache entry
C20_Witness ==
  \E s \in Slots :
    /\ ev[s].strat = "networkFirst"
    /\ ev[s].pc = "done"
    /\ ~ev[s].net.ok
    /\ ev[s].res = Returned(ev[s].net)
    /\ CachesMatch(Path(s)) # NoResp

\* C21: while the worker is activating, the page is under its control - its
\* clients.claim() has resolved - only when no namespace outside the allow-list
\* exists in storage any more.
C21_ClaimAfterCleanup ==
  (swState = "activating" /\ act.claim = "done" /\ controlled)
    => Range(cacheNames) \subseteq {CACHE_NAME, STATIC_CACHE, DYNAMIC_CACHE, IMAGE_CACHE}
====
